---------------------------- MODULE Spec2Model ----------------------------
(***************************************************************************)
(* forge_ds_store: the Bud1 block allocator (BuddyAllocator), the byte     *)
(* cursor (Record / Block), the single-page B-tree encoder (BTree) and the *)
(* alias record builder (createAliasFile) of src/forge_ds_store.cpp.       *)
(*                                                                         *)
(* A uint32_t is held as a pair <<hi, lo>> of 16-bit halves, value         *)
(* hi * 65536 + lo, so that every value up to 2^32 - 1 is represented and  *)
(* arithmetic wraps modulo 2^32 as it does in the program.                 *)
(***************************************************************************)
EXTENDS Integers, Sequences, FiniteSets, TLC

(* ------------------------------ bounds --------------------------------- *)

\* allocateBlock calls made directly by the caller of the allocator
MaxAllocs == 2
\* addBlob / addBool / addShort calls
MaxAdds == 2

(* --------------------------- uint32_t values --------------------------- *)

Half == 65536

\* a natural below 2^31 as a uint32_t
U(n) == <<n \div Half, n % Half>>

\* the value of a uint32_t that is below 2^31
Val(u) == u[1] * Half + u[2]

U32Max == <<Half - 1, Half - 1>>

\* a + b modulo 2^32
U32Add(a, b) ==
    LET lo == a[2] + b[2]
    IN  <<(a[1] + b[1] + (lo \div Half)) % Half, lo % Half>>

\* a - b modulo 2^32
U32Sub(a, b) ==
    LET lo == a[2] - b[2]
        borrow == IF lo < 0 THEN 1 ELSE 0
    IN  <<(a[1] - b[1] - borrow + 2 * Half) % Half, (lo + Half) % Half>>

U32Lt(a, b) == a[1] < b[1] \/ (a[1] = b[1] /\ a[2] < b[2])

RECURSIVE Pow2(_)
Pow2(k) == IF k = 0 THEN 1 ELSE 2 * Pow2(k - 1)

RECURSIVE Or16(_, _)
\* bitwise or of two 16-bit halves
Or16(a, b) ==
    IF a = 0 THEN b
    ELSE IF b = 0 THEN a
    ELSE (IF a % 2 = 1 \/ b % 2 = 1 THEN 1 ELSE 0) + 2 * Or16(a \div 2, b \div 2)

RECURSIVE And16(_, _)
\* bitwise and of two 16-bit halves
And16(a, b) ==
    IF a = 0 \/ b = 0 THEN 0
    ELSE (IF a % 2 = 1 /\ b % 2 = 1 THEN 1 ELSE 0) + 2 * And16(a \div 2, b \div 2)

U32Or(a, b) == <<Or16(a[1], b[1]), Or16(a[2], b[2])>>

U32And(a, b) == <<And16(a[1], b[1]), And16(a[2], b[2])>>

\* v >> k for 0 <= k <= 16
U32Shr(v, k) ==
    <<v[1] \div Pow2(k), (v[2] \div Pow2(k)) + (v[1] % Pow2(k)) * Pow2(16 - k)>>

\* 1 << i for 0 <= i <= 31
U32Bit(i) == IF i < 16 THEN <<0, Pow2(i)>> ELSE <<Pow2(i - 16), 0>>

RECURSIVE Log2Floor(_)
\* index of the highest set bit of a positive natural
Log2Floor(n) == IF n <= 1 THEN 0 ELSE 1 + Log2Floor(n \div 2)

(* ------------------------------- Record -------------------------------- *)

\* Record(size): a vector of `size` zero bytes and a cursor at 0.  `data`
\* holds the bytes up to the highest offset written so far; every byte after
\* it still holds the 0 the constructor put there.  A `data` longer than
\* `size` means a write landed past the end of the vector.
Record(size) == [size |-> size, data |-> <<>>, curOffset |-> 0]

\* the byte at offset i (0-based) of the vector
ByteAt(r, i) == IF i < Len(r.data) THEN r.data[i + 1] ELSE 0

\* d[curOffset + i] = bytes[i] for every i, then curOffset += Len(bytes)
WriteAt(r, bytes) ==
    LET o == r.curOffset
        n == Len(bytes)
        old == Len(r.data)
        newLen == IF o + n > old THEN o + n ELSE old
    IN  [r EXCEPT
            !.data = IF o = old
                     THEN r.data \o bytes
                     ELSE [i \in 1..newLen |->
                              IF i > o /\ i <= o + n THEN bytes[i - o]
                              ELSE IF i <= old THEN r.data[i] ELSE 0],
            !.curOffset = o + n]

writeInt8(r, v) == WriteAt(r, <<v % 256>>)

writeInt16(r, v) == WriteAt(r, <<(v \div 256) % 256, v % 256>>)

writeInt32(r, v) ==
    WriteAt(r, <<v[1] \div 256, v[1] % 256, v[2] \div 256, v[2] % 256>>)

\* s is the string without its terminating NUL, one char code per element
writeStr(r, s) == WriteAt(r, s)

writeData(r, data) == WriteAt(r, data)

\* seek dropping the bytes behind the new cursor
seek_truncating(r, o) ==
    [r EXCEPT !.data = SubSeq(r.data, 1, IF o < Len(r.data) THEN o ELSE Len(r.data)),
              !.curOffset = o]

\* seek leaving the cursor where it is
seek_ignored(r, o) == r

seek(r, o) == [r EXCEPT !.curOffset = o]

\* some write went past the end of the vector
Overrun(r) == U32Lt(r.size, U(Len(r.data)))

(* -------------------------------- Block -------------------------------- *)

Block(addr, size) == [addr |-> addr] @@ Record(size)

getAddr(b) == b.addr


(* ------------------------------ inputs --------------------------------- *)

\* requested sizes handed to allocateBlock by the caller, 1 <= n <= 2^31
AllocSizes == {U(1), U(20), U(2048), <<32767, 65535>>, <<32768, 0>>}

\* requested sizes of the blocks a caller allocates around a BTree
TreeAllocSizes == {U(20)}

\* char codes of the string literals of the program
Str_DSDB == <<68, 83, 68, 66>>
Str_Bud1 == <<66, 117, 100, 49>>
Str_blob == <<98, 108, 111, 98>>
Str_bool == <<98, 111, 111, 108>>
Str_shor == <<115, 104, 111, 114>>
Str_BKGD == <<66, 75, 71, 68>>
Str_ICVO == <<73, 67, 86, 79>>
Str_icvt == <<105, 99, 118, 116>>
Str_Iloc == <<73, 108, 111, 99>>

\* requested sizes for runs that only allocate: every size up to 17, the
\* sizes around 2^15, 2^16 and 2^17 (where the two halves of the value meet),
\* and the largest ones
ManyAllocSizes ==
    {U(n) : n \in 1..17}
    \cup {U(n) : n \in {32767, 32768, 32769, 65535, 65536, 65537, 131071, 131072, 131073}}
    \cup {<<16384, 1>>, <<32767, 65535>>, <<32768, 0>>}

\* file names given to addBlob: "." and "a"
FileNames == {<<46>>, <<97>>}

\* a blob of n bytes, byte i holding (i % 251) + 1
Filled(n) == [i \in 1..n |-> (i % 251) + 1]

\* blobs given to addBlob: a 12-byte record, and one larger than a leaf page
BlobDatas == {Filled(12), Filled(2040)}

\* the longest names the length-prefixed fields of an AliasFile hold
MaxVolumeNameLen == 27
MaxFileNameLen == 63

Str_MyDisk == <<77, 121, 68, 105, 115, 107>>
Str_bg_png == <<98, 103, 46, 112, 110, 103>>

\* volume names: "MyDisk", and one name of every length up to the maximum
VolumeNames ==
    {[i \in 1..n |-> 65 + (i % 26)] : n \in 0..MaxVolumeNameLen} \cup {Str_MyDisk}

\* file names: "bg.png", and names of the shortest and longest lengths
BgFileNames ==
    {[i \in 1..n |-> 97 + (i % 26)] :
        n \in {0, 1, 2, MaxFileNameLen - 1, MaxFileNameLen}} \cup {Str_bg_png}

\* command-line arguments
Str_argv0 == <<102, 111, 114, 103, 101, 95, 100, 115, 95, 115, 116, 111, 114, 101>>
Str_out == <<111, 117, 116>>
Str_Vol == <<86, 111, 108>>
Str_icon_png == <<105, 99, 111, 110, 46, 112, 110, 103>>
Str_600 == <<54, 48, 48>>
Str_400 == <<52, 48, 48>>
Str_128 == <<49, 50, 56>>
Str_16 == <<49, 54>>
Str_100 == <<49, 48, 48>>

\* strings given as numeric arguments: "600", "-5", " 7", "+3", "70000", and
\* "", "12abc", "abc", "+", " ", "7 ", "1.5"
NumStrs ==
    {Str_600, <<45, 53>>, <<32, 55>>, <<43, 51>>, <<55, 48, 48, 48, 48>>,
     <<>>, <<49, 50, 97, 98, 99>>, <<97, 98, 99>>, <<43>>, <<32>>, <<55, 32>>, <<49, 46, 53>>}

\* the arguments of the end-to-end example, without file triples
BaseArgs == <<Str_argv0, Str_out, Str_bg_png, Str_600, Str_400, Str_Vol, Str_128, Str_16>>

\* positions in argv (1-based) of bg_width, bg_height, icon_size, text_size
NumericPositions == {4, 5, 7, 8}

\* the triple of a file
Triple(name) == <<name, Str_100, Str_100>>

\* the name of the i-th of many files: "file" i ".a", i in two digits
ManyFileName(i) == <<102, 105, 108, 101, 48 + (i \div 10), 48 + (i % 10), 46, 97>>

\* the number of files of the largest folder
ManyFiles == 36

RECURSIVE ManyTriples(_)
ManyTriples(n) == IF n = 0 THEN <<>> ELSE ManyTriples(n - 1) \o Triple(ManyFileName(n))

\* argument vectors: too few arguments and incomplete triples; each numeric
\* argument in turn replaced by each string; the example's file, two files
\* in both orders, and many files
ArgVectors ==
    {SubSeq(BaseArgs, 1, n) : n \in 1..7}
    \cup {BaseArgs \o <<Str_icon_png>>, BaseArgs \o <<Str_icon_png, Str_100>>}
    \cup {[BaseArgs EXCEPT ![i] = s] : i \in NumericPositions, s \in NumStrs}
    \cup {BaseArgs \o <<Str_icon_png, s, Str_100>> : s \in NumStrs}
    \cup {BaseArgs \o <<Str_icon_png, Str_100, s>> : s \in NumStrs}
    \cup {BaseArgs,
          BaseArgs \o Triple(Str_icon_png),
          BaseArgs \o Triple(<<97>>) \o Triple(<<98>>),
          BaseArgs \o Triple(<<98>>) \o Triple(<<97>>),
          BaseArgs \o ManyTriples(ManyFiles - 1),
          BaseArgs \o ManyTriples(ManyFiles)}

(* ------------------------------- state --------------------------------- *)

VARIABLES
    blocks,      \* BuddyAllocator::blocks, 1-based: blocks[i] is C++ blocks[i-1]
    curAddr,     \* BuddyAllocator::curAddr
    bTree,       \* TRUE once the BTree object has been constructed
    entryCount,  \* BTree::entryCount
    curPageId,   \* BTree::curPageId
    status,      \* "running", or how the process died
    ret,         \* the last call: its name, its argument, what it returned
    hist,        \* history of the run: call counters, ids handed out
    volumeName,  \* main: volumeName, as given to createAliasFile
    bgFileName,  \* main: bgFileName, as given to createAliasFile
    aliasFile,   \* main: aliasFile, <<>> until createAliasFile has returned
    argv,        \* main: argv[0..argc-1] as argv[1..argc], each a string
    outFile      \* the bytes of the output file, <<>> until it is written

vars == <<blocks, curAddr, bTree, entryCount, curPageId, status, ret, hist,
          volumeName, bgFileName, aliasFile, argv, outFile>>

aliasVars == <<volumeName, bgFileName, aliasFile>>

mainVars == <<argv, outFile>>

(* --------------------------- BuddyAllocator ---------------------------- *)

\* powerOf2Ceil without its first statement, v = v - 1
powerOf2Ceil_noDecrement(v) ==
    LET v1 == U32Or(v, U32Shr(v, 1))
        v2 == U32Or(v1, U32Shr(v1, 2))
        v4 == U32Or(v2, U32Shr(v2, 4))
        v8 == U32Or(v4, U32Shr(v4, 8))
        v16 == U32Or(v8, U32Shr(v8, 16))
    IN  U32Add(v16, U(1))

powerOf2Ceil(v) ==
    LET v0 == U32Sub(v, U(1))
        v1 == U32Or(v0, U32Shr(v0, 1))
        v2 == U32Or(v1, U32Shr(v1, 2))
        v4 == U32Or(v2, U32Shr(v2, 4))
        v8 == U32Or(v4, U32Shr(v4, 8))
        v16 == U32Or(v8, U32Shr(v8, 16))
    IN  U32Add(v16, U(1))

\* 31 - __builtin_clz(blockSize), blockSize nonzero
getLog2(blockSize) ==
    IF blockSize[1] > 0 THEN 16 + Log2Floor(blockSize[1])
    ELSE Log2Floor(blockSize[2])

\* allocateBlock with curAddr advanced by the requested size, not blockSize
allocateBlock_bumpByRequest(a, size) ==
    LET blockSize == powerOf2Ceil(size)
        bs == Append(a.blocks, Block(a.curAddr, blockSize))
    IN  [blocks |-> bs,
         curAddr |-> U32Add(a.curAddr, size),
         id |-> U32Sub(U(Len(bs)), U(2))]

\* allocateBlock on the allocator a = [blocks, curAddr]: the allocator after
\* the call, and the id returned
allocateBlock(a, size) ==
    LET blockSize == powerOf2Ceil(size)
        bs == Append(a.blocks, Block(a.curAddr, blockSize))
    IN  [blocks |-> bs,
         curAddr |-> U32Add(a.curAddr, blockSize),
         id |-> U32Sub(U(Len(bs)), U(2))]

\* the allocator as its constructor leaves it
BuddyAllocator ==
    LET a0 == [blocks |-> <<>>, curAddr |-> U(0)]
        a1 == allocateBlock(a0, U(32))
    IN  allocateBlock(a1, U(2048))

\* getBlock indexing the block list with the id itself
getBlockIndex_noOffset(blockId) == blockId

\* the index getBlock(blockId) hands to blocks.at(): blockId + 1
getBlockIndex(blockId) == U32Add(blockId, U(1))

\* getBlock(blockId): "ok", or how the call fails
getBlockOutcome(bs, blockId) ==
    IF blockId = U32Max THEN "assert_failed"
    ELSE IF U32Lt(getBlockIndex(blockId), U(Len(bs))) THEN "ok"
    ELSE "out_of_range"

\* getBlock(blockId), when it succeeds, as an index into the 1-based `blocks`
getBlock(blockId) == Val(getBlockIndex(blockId)) + 1

NoRet == [op |-> "none", arg |-> U(0), id |-> U(0), index |-> 0]

\* allocs: allocateBlock calls made by the caller; userAllocs: allocateBlock
\* calls since the allocator was constructed; ids: the ids they returned;
\* adds: add calls; lateAdds: add calls after finish(); finishes, metas:
\* finish() and createMetaDataBlock calls; leaf: the id of the page the BTree
\* constructor allocated; master: the id finish() returned; bump: curAddr
\* when createMetaDataBlock was called
NoHist ==
    [allocs |-> 0, userAllocs |-> 0, ids |-> {}, adds |-> 0, lateAdds |-> 0,
     finishes |-> 0, metas |-> 0, leaf |-> U(0), master |-> U(0), bump |-> U(0)]

Init ==
    /\ blocks = BuddyAllocator.blocks
    /\ curAddr = BuddyAllocator.curAddr
    /\ bTree = FALSE
    /\ entryCount = U(0)
    /\ curPageId = U(0)
    /\ status = "running"
    /\ ret = NoRet
    /\ hist = NoHist
    /\ volumeName = <<>>
    /\ bgFileName = <<>>
    /\ aliasFile = <<>>
    /\ argv = <<>>
    /\ outFile = <<>>

\* the caller allocates a block
AllocateBlock(size) ==
    /\ status = "running"
    /\ hist.allocs < MaxAllocs
    /\ LET a == allocateBlock([blocks |-> blocks, curAddr |-> curAddr], size)
       IN  /\ blocks' = a.blocks
           /\ curAddr' = a.curAddr
           /\ ret' = [NoRet EXCEPT !.op = "allocateBlock", !.arg = size, !.id = a.id]
           /\ hist' = [hist EXCEPT !.allocs = @ + 1, !.userAllocs = @ + 1,
                                   !.ids = @ \cup {a.id}]
    /\ UNCHANGED <<bTree, entryCount, curPageId, status, aliasVars, mainVars>>

\* ids the caller hands to getBlock
BlockIds == {U(k) : k \in 0..Len(blocks)} \cup {U32Max}

\* the caller looks a block up
GetBlock(blockId) ==
    /\ status = "running"
    /\ LET o == getBlockOutcome(blocks, blockId)
       IN  IF o = "ok"
           THEN /\ ret' = [NoRet EXCEPT !.op = "getBlock", !.arg = blockId,
                                        !.index = Val(getBlockIndex(blockId))]
                /\ status' = status
           ELSE /\ ret' = [NoRet EXCEPT !.op = "getBlock", !.arg = blockId]
                /\ status' = o
    /\ UNCHANGED <<blocks, curAddr, bTree, entryCount, curPageId, hist, aliasVars, mainVars>>

(* -------------------------------- BTree -------------------------------- *)

\* a char (signed, as on the x86 targets of the tool) converted to uint16_t
CharToU16(c) == IF c >= 128 THEN 65280 + c ELSE c

RECURSIVE writeChars(_, _, _)
\* the loop of writeFileName from index i on
writeChars(b, s, i) ==
    IF i > Len(s) THEN b
    ELSE writeChars(writeInt16(b, CharToU16(s[i])), s, i + 1)

writeFileName(b, s) == writeChars(writeInt32(b, U(Len(s))), s, 1)

\* what addBlob writes into the current page b
addBlob(b, fileName, recordType, data) ==
    LET b1 == writeFileName(b, fileName)
        b2 == writeStr(b1, recordType)
        b3 == writeStr(b2, Str_blob)
        b4 == writeInt32(b3, U(Len(data)))
    IN  writeData(b4, data)

\* what addBool writes into the current page b
addBool(b, fileName, recordType, v) ==
    LET b1 == writeFileName(b, fileName)
        b2 == writeStr(b1, recordType)
        b3 == writeStr(b2, Str_bool)
    IN  writeInt8(b3, v)

\* what addShort writes into the current page b
addShort(b, fileName, recordType, v) ==
    LET b1 == writeFileName(b, fileName)
        b2 == writeStr(b1, recordType)
        b3 == writeStr(b2, Str_shor)
    IN  writeInt32(b3, U(v))

\* A write past the end of a vector is undefined behaviour: the store may
\* land in the memory behind the vector and the run goes on ("performed"),
\* or the process may be killed ("crashed").
WriteOutcomes(b) == IF Overrun(b) THEN {"performed", "crashed"} ELSE {"performed"}

\* BTree::BTree
BTreeCtor ==
    /\ status = "running"
    /\ ~bTree
    /\ LET a == allocateBlock([blocks |-> blocks, curAddr |-> curAddr], U(2048))
           i == getBlock(a.id)
           b == writeInt32(writeInt32(a.blocks[i], U(0)), U(0))
       IN  /\ blocks' = [a.blocks EXCEPT ![i] = b]
           /\ curAddr' = a.curAddr
           /\ curPageId' = a.id
           /\ hist' = [hist EXCEPT !.userAllocs = @ + 1, !.ids = @ \cup {a.id},
                                   !.leaf = a.id]
    /\ bTree' = TRUE
    /\ entryCount' = U(0)
    /\ ret' = [NoRet EXCEPT !.op = "BTree"]
    /\ UNCHANGED <<status, aliasVars, mainVars>>

\* the part common to the three add methods: entryCount++, then the page
\* as the method's writes leave it
Add(op, page) ==
    /\ status = "running"
    /\ bTree
    /\ \E outcome \in WriteOutcomes(page) :
          IF outcome = "performed"
          THEN /\ entryCount' = U32Add(entryCount, U(1))
               /\ blocks' = [blocks EXCEPT ![getBlock(curPageId)] = page]
               /\ status' = status
          ELSE /\ status' = "crashed"
               /\ UNCHANGED <<entryCount, blocks>>
    /\ hist' = [hist EXCEPT !.adds = @ + 1,
                            !.lateAdds = IF hist.finishes > 0 THEN @ + 1 ELSE @]
    /\ ret' = [NoRet EXCEPT !.op = op]
    /\ UNCHANGED <<curAddr, bTree, curPageId, aliasVars, mainVars>>

\* the add methods, called by a caller that makes at most MaxAdds such calls
AddBlob(fileName, recordType, data) ==
    /\ bTree
    /\ hist.adds < MaxAdds
    /\ Add("addBlob", addBlob(blocks[getBlock(curPageId)], fileName, recordType, data))

AddBool(fileName, recordType, v) ==
    /\ bTree
    /\ hist.adds < MaxAdds
    /\ Add("addBool", addBool(blocks[getBlock(curPageId)], fileName, recordType, v))

AddShort(fileName, recordType, v) ==
    /\ bTree
    /\ hist.adds < MaxAdds
    /\ Add("addShort", addShort(blocks[getBlock(curPageId)], fileName, recordType, v))

\* the master block with depth and node count exchanged
writeMaster_swapped(master, rootBlockID, count) ==
    LET m1 == writeInt32(master, rootBlockID)
        m2 == writeInt32(m1, U(1))
        m3 == writeInt32(m2, count)
        m4 == writeInt32(m3, U(0))
    IN  writeInt32(m4, U(4096))

\* the five fields finish() writes into the master block
writeMaster(master, rootBlockID, count) ==
    LET m1 == writeInt32(master, rootBlockID)
        m2 == writeInt32(m1, U(0))
        m3 == writeInt32(m2, count)
        m4 == writeInt32(m3, U(1))
    IN  writeInt32(m4, U(4096))

\* BTree::finish, called once (calling it twice is a caller error, 4.3)
Finish ==
    /\ status = "running"
    /\ bTree
    /\ hist.finishes = 0
    /\ LET i == getBlock(curPageId)
           b == writeInt32(seek(blocks[i], 4), entryCount)
           rootBlockID == curPageId
           a == allocateBlock([blocks |-> [blocks EXCEPT ![i] = b],
                               curAddr |-> curAddr], U(20))
           m == getBlock(a.id)
           master == writeMaster(a.blocks[m], rootBlockID, entryCount)
       IN  /\ blocks' = [a.blocks EXCEPT ![m] = master]
           /\ curAddr' = a.curAddr
           /\ curPageId' = a.id
           /\ ret' = [NoRet EXCEPT !.op = "finish", !.id = a.id]
           /\ hist' = [hist EXCEPT !.finishes = @ + 1, !.userAllocs = @ + 1,
                                   !.ids = @ \cup {a.id}, !.master = a.id]
    /\ UNCHANGED <<bTree, entryCount, status, aliasVars, mainVars>>

(* ------------------------- createMetaDataBlock ------------------------- *)

\* entries of the allocated list
TableEntries == 256
\* buckets of the free list
Buckets == 32

\* that iteration with two words written per entry, the address and the size
tableEntry_twoWords(metaData, bs, i) ==
    IF i < Len(bs) - 1
    THEN writeInt32(writeInt32(metaData, getAddr(bs[i + 2])), bs[i + 2].size)
    ELSE writeInt32(writeInt32(metaData, U(0)), U(0))

\* that iteration with the entry encoded as the address alone
tableEntry_addrOnly(metaData, bs, i) ==
    IF i < Len(bs) - 1
    THEN writeInt32(metaData, getAddr(bs[i + 2]))
    ELSE writeInt32(metaData, U(0))

\* one iteration of the loop that populates the entries
tableEntry(metaData, bs, i) ==
    IF i < Len(bs) - 1
    THEN LET b == bs[i + 2]
             log2Size == getLog2(b.size)
             addr == getAddr(b)
         IN  writeInt32(metaData, U32Or(addr, U(log2Size)))
    ELSE writeInt32(metaData, U(0))

RECURSIVE tableLoop(_, _, _, _)
\* iterations i, i + 1, ..., i + n - 1 of that loop, in this order.  The
\* range is halved, and the first half is evaluated (its cursor is read)
\* before the second half starts, to keep the evaluation shallow.
tableLoop(metaData, bs, i, n) ==
    IF n = 0 THEN metaData
    ELSE IF n = 1 THEN tableEntry(metaData, bs, i)
    ELSE LET h == n \div 2
             first == tableLoop(metaData, bs, i, h)
         IN  IF first.curOffset >= 0
             THEN tableLoop(first, bs, i + h, n - h)
             ELSE first

\* assert((addr & 0x1f) == 0) holds in every iteration of the loop
tableAsserts(bs) ==
    \A i \in 0..(TableEntries - 1) :
        i < Len(bs) - 1 => U32And(getAddr(bs[i + 2]), U(31)) = U(0)

\* that iteration with curAddr left where it was
freeListBucket_noBump(metaData, ca, i) ==
    LET mask == U32Bit(i)
    IN  IF U32And(ca, mask) # U(0)
        THEN [metaData |-> writeInt32(writeInt32(metaData, U(1)), ca),
              curAddr |-> ca]
        ELSE [metaData |-> writeInt32(metaData, U(0)), curAddr |-> ca]

\* that iteration with the bucket's size taken off curAddr, not added to it
freeListBucket_decrement(metaData, ca, i) ==
    LET mask == U32Bit(i)
    IN  IF U32And(ca, mask) # U(0)
        THEN [metaData |-> writeInt32(writeInt32(metaData, U(1)), ca),
              curAddr |-> U32Sub(ca, mask)]
        ELSE [metaData |-> writeInt32(metaData, U(0)), curAddr |-> ca]

\* one iteration of the loop over the buckets of the free list
freeListBucket(metaData, ca, i) ==
    LET mask == U32Bit(i)
    IN  IF U32And(ca, mask) # U(0)
        THEN [metaData |-> writeInt32(writeInt32(metaData, U(1)), ca),
              curAddr |-> U32Add(ca, mask)]
        ELSE [metaData |-> writeInt32(metaData, U(0)), curAddr |-> ca]

RECURSIVE freeListLoop(_, _, _)
\* that loop from bucket i on: the metadata block and curAddr as the loop
\* leaves them.  Each iteration is evaluated (its cursor is read) before the
\* next one starts, to keep the evaluation shallow.
freeListLoop(metaData, ca, i) ==
    IF i = Buckets THEN [metaData |-> metaData, curAddr |-> ca]
    ELSE LET it == freeListBucket(metaData, ca, i)
         IN  IF it.metaData.curOffset >= 0
             THEN freeListLoop(it.metaData, it.curAddr, i + 1)
             ELSE it

\* the directory: one entry, "DSDB" -> bTreeBlockId
writeDirectory(metaData, bTreeBlockId) ==
    LET m1 == writeInt32(metaData, U(1))
        m2 == writeInt8(m1, 4)
        m3 == writeStr(m2, Str_DSDB)
    IN  writeInt32(m3, bTreeBlockId)

\* the header block with the size written in front of the two addresses
writeHeader_sizeFirst(header, metaData) ==
    LET h1 == writeStr(header, Str_Bud1)
        h2 == writeInt32(h1, metaData.size)
        h3 == writeInt32(h2, getAddr(metaData))
    IN  writeInt32(h3, getAddr(metaData))

\* the header block, finalized
writeHeader(header, metaData) ==
    LET h1 == writeStr(header, Str_Bud1)
        h2 == writeInt32(h1, getAddr(metaData))
        h3 == writeInt32(h2, metaData.size)
    IN  writeInt32(h3, getAddr(metaData))

\* BuddyAllocator::createMetaDataBlock, called once (4.2) as main does
CreateMetaDataBlock(bTreeBlockId) ==
    /\ status = "running"
    /\ hist.metas = 0
    /\ LET m1 == writeInt32(blocks[2], U(Len(blocks) - 1))
           m2 == writeInt32(m1, U(0))
           m3 == tableLoop(m2, blocks, 0, TableEntries)
           m4 == writeDirectory(m3, bTreeBlockId)
           fl == freeListLoop(m4, curAddr, 0)
           header == writeHeader(blocks[1], fl.metaData)
       IN  IF ~tableAsserts(blocks) \/ fl.curAddr # U(0)
           THEN /\ status' = "assert_failed"
                /\ UNCHANGED <<blocks, curAddr>>
           ELSE \E outcome \in WriteOutcomes(fl.metaData) \cup WriteOutcomes(header) :
                   IF outcome = "performed"
                   THEN /\ blocks' = [blocks EXCEPT ![2] = fl.metaData, ![1] = header]
                        /\ curAddr' = fl.curAddr
                        /\ status' = status
                   ELSE /\ status' = "crashed"
                        /\ UNCHANGED <<blocks, curAddr>>
    /\ hist' = [hist EXCEPT !.metas = @ + 1, !.bump = curAddr]
    /\ ret' = [NoRet EXCEPT !.op = "createMetaDataBlock", !.arg = bTreeBlockId]
    /\ UNCHANGED <<bTree, entryCount, curPageId, aliasVars, mainVars>>

(* ------------------------------ writeFile ------------------------------ *)

RECURSIVE writeFileOffset(_, _)
\* the offset in the file at which writeFile puts the first byte of block i
\* (1-based): the 4 bytes of preHeader, then every earlier block in full.
\* File offsets are not 32-bit values: <<hi, lo>> stands for
\* hi * 65536 + lo with lo < 65536 and hi not reduced.
writeFileOffset(bs, i) ==
    IF i = 1 THEN <<0, 4>>
    ELSE LET t == writeFileOffset(bs, i - 1)
             lo == t[2] + bs[i - 1].size[2]
         IN  <<t[1] + bs[i - 1].size[1] + (lo \div Half), lo % Half>>

(* --------------------------- createAliasFile --------------------------- *)

\* struct AliasFile (packed): its fields in order, with their sizes in bytes
AliasFileFields ==
    << <<"creatorCode", 4>>, <<"recordSize", 2>>, <<"recordVersion", 2>>,
       <<"aliasKind", 2>>, <<"volumeLenAndName", 28>>, <<"volumeCreateDate", 4>>,
       <<"volumeSig", 2>>, <<"driveType", 2>>, <<"parentInode", 4>>,
       <<"fileLenAndName", 64>>, <<"fileInode", 4>>, <<"fileCreateDate", 4>>,
       <<"fileType", 4>>, <<"fileCreator", 4>>, <<"fileFrom", 2>>, <<"fileTo", 2>>,
       <<"volumeAttributes", 4>>, <<"volumeFs", 2>>, <<"reserved", 10>>,
       <<"extraData", 0>> >>

RECURSIVE SizeOfFields(_)
\* the size of the first k fields
SizeOfFields(k) == IF k = 0 THEN 0 ELSE SizeOfFields(k - 1) + AliasFileFields[k][2]

\* offsetof(AliasFile, field)
OffsetOf(field) ==
    LET k == CHOOSE j \in 1..Len(AliasFileFields) : AliasFileFields[j][1] = field
    IN  SizeOfFields(k - 1)

\* sizeof(AliasFile)
SizeOfAliasFile == SizeOfFields(Len(AliasFileFields))

\* the bytes htons(v) and htonl(v) leave in memory
htons(v) == <<(v \div 256) % 256, v % 256>>
htonl(v) == <<(v \div 16777216) % 256, (v \div 65536) % 256, (v \div 256) % 256, v % 256>>

\* the vector bytes with `data` stored from offset off (0-based) on
Store(bytes, off, data) ==
    [i \in 1..Len(bytes) |->
        IF i > off /\ i <= off + Len(data) THEN data[i - off] ELSE bytes[i]]

\* createAliasFile(volumeName, fileName): the vector it returns.  The names
\* are strings without their terminating NUL, one char code per element.
createAliasFile(volume, file) ==
    LET volumeNameLen == Len(volume)
        fileNameLen == Len(file)
        fullPathSize0 == volumeNameLen + fileNameLen + 1
        fullPathSize == IF fullPathSize0 % 2 = 1 THEN fullPathSize0 + 1 ELSE fullPathSize0
        recordSize == SizeOfAliasFile + 8 + fullPathSize
        extraData == OffsetOf("extraData")
        r0 == [i \in 1..recordSize |-> 0]
        r1 == Store(r0, OffsetOf("recordSize"), htons(recordSize))
        r2 == Store(r1, OffsetOf("recordVersion"), htons(2))
        r3 == Store(r2, OffsetOf("volumeLenAndName"), <<volumeNameLen % 256>>)
        r4 == Store(r3, OffsetOf("volumeLenAndName") + 1, volume)
        r5 == Store(r4, OffsetOf("volumeSig"), htons(18475))
        r6 == Store(r5, OffsetOf("parentInode"), htonl(2))
        r7 == Store(r6, OffsetOf("fileLenAndName"), <<fileNameLen % 256>>)
        r8 == Store(r7, OffsetOf("fileLenAndName") + 1, file)
        r9 == Store(r8, OffsetOf("fileInode"), <<0, 0, 0, 0>>)
        r10 == Store(r9, OffsetOf("fileFrom"), htons(65535))
        r11 == Store(r10, OffsetOf("fileTo"), htons(65535))
        r12 == Store(r11, extraData, htons(2))
        r13 == Store(r12, extraData + 2, htons(fullPathSize))
        r14 == Store(r13, extraData + 4, volume)
        r15 == Store(r14, extraData + 4 + volumeNameLen, <<58>>)
        r16 == Store(r15, extraData + 5 + volumeNameLen, file)
        r17 == Store(r16, extraData + 4 + fullPathSize, <<255>>)
    IN  Store(r17, extraData + 5 + fullPathSize, <<255>>)

\* main, line 401: the alias file is created from the arguments
CreateAliasFile ==
    /\ status = "running"
    /\ aliasFile = <<>>
    /\ aliasFile' = createAliasFile(volumeName, bgFileName)
    /\ UNCHANGED <<blocks, curAddr, bTree, entryCount, curPageId, status, ret, hist,
                   volumeName, bgFileName, mainVars>>

(* -------------------------------- main --------------------------------- *)

\* char codes of the string literals of main
Str_dot == <<46>>
Str_PctB == <<80, 99, 116, 66>>
Str_icnv == <<105, 99, 110, 118>>
Str_icv4 == <<105, 99, 118, 52>>
Str_none == <<110, 111, 110, 101>>
Str_botm == <<98, 111, 116, 109>>
Str_fwi0 == <<102, 119, 105, 48>>
Str_icvo == <<105, 99, 118, 111>>
Str_pict == <<112, 105, 99, 116>>

\* isspace and isdigit in the "C" locale
IsSpace(c) == c \in {32, 9, 10, 11, 12, 13}
IsDigit(c) == c \in 48..57

RECURSIVE SkipWhile(_, _, _)
\* the first index from i on (1-based) at which s has no char of the class
SkipWhile(s, i, IsSpaceClass) ==
    IF i <= Len(s) /\ (IF IsSpaceClass THEN IsSpace(s[i]) ELSE IsDigit(s[i]))
    THEN SkipWhile(s, i + 1, IsSpaceClass)
    ELSE i

RECURSIVE DigitsValue(_, _, _)
\* the value of the decimal digits s[i..j-1]; the strings of the model have
\* fewer than ten digits, which keeps the value in the range of a long
DigitsValue(s, i, j) ==
    IF j <= i THEN 0 ELSE 10 * DigitsValue(s, i, j - 1) + (s[j - 1] - 48)

\* strtol(f, &endPtr, 10): white space, an optional sign, decimal digits.
\* endPtr is the index (1-based) of the first char not converted, Len(f) + 1
\* standing for the terminating NUL; without any digit nothing is converted
\* and endPtr is the start of the string.
strtol(f) ==
    LET i0 == SkipWhile(f, 1, TRUE)
        signed == i0 <= Len(f) /\ f[i0] \in {43, 45}
        i1 == IF signed THEN i0 + 1 ELSE i0
        i2 == SkipWhile(f, i1, FALSE)
        n == DigitsValue(f, i1, i2)
    IN  IF i2 = i1
        THEN [endPtr |-> 1, negative |-> FALSE, magnitude |-> 0]
        ELSE [endPtr |-> i2, negative |-> signed /\ f[i0] = 45, magnitude |-> n]

\* getInt(f): whether it returns (it exits the process otherwise), and the
\* uint32_t it returns, the long of strtol converted modulo 2^32
getInt(f) ==
    LET p == strtol(f)
    IN  [ok |-> p.endPtr = Len(f) + 1,
         value |-> IF p.negative THEN U32Sub(U(0), U(p.magnitude)) ELSE U(p.magnitude)]

\* the bytes of a vector of n zero bytes
Zeros(n) == [i \in 1..n |-> 0]

\* the whole vector of a record, its bytes 0 .. size - 1
Bytes(r) == [i \in 1..Val(r.size) |-> ByteAt(r, i - 1)]

\* main, lines 405-408: the PctB blob, a PctBRecord
PctB(aliasLen) == Str_PctB \o htonl(aliasLen) \o Zeros(4)

\* main, lines 412-418: the Finder window blob, a FinderWindowRecord; htons
\* takes the low 16 bits of the sums
Fw(bgHeight, bgWidth) ==
    htons(200) \o htons(300)
    \o htons(U32Add(U(200), bgHeight)[2]) \o htons(U32Add(U(300), bgWidth)[2])
    \o Str_icnv \o Zeros(4)

\* main, lines 421-426: the icon view blob, an Icv4Record
ivData(iconSize) ==
    Str_icv4 \o htons(iconSize[2]) \o Str_none \o Str_botm \o Zeros(12)

\* main, lines 435-440: the Iloc record of one file
ilocRecord(centerX, centerY) ==
    LET r1 == writeInt32(Record(U(16)), centerX)
        r2 == writeInt32(r1, centerY)
        r3 == writeInt16(r2, 65535)
        r4 == writeInt16(r3, 65535)
    IN  Bytes(writeInt16(r4, 65535))

RECURSIVE writeFile(_, _)
\* writeFile: preHeader, then blocks i, i + 1, ... in full; call it with i = 1
writeFile(bs, i) ==
    IF i > Len(bs) THEN <<>>
    ELSE (IF i = 1 THEN htonl(1) ELSE <<>>) \o Bytes(bs[i]) \o writeFile(bs, i + 1)

argc == Len(argv)

\* the negation of the test of line 388
usageOk == ~(argc < 8 \/ (argc - 8) % 3 # 0)

\* the number of times the loop of line 430 runs
fileCount == (argc - 8) \div 3

\* main's locals of lines 393-399, and argv[i], argv[i+1], argv[i+2] of the
\* j-th run (j from 0) of the loop of line 430
bgWidth == argv[4]
bgHeight == argv[5]
iconSize == argv[7]
textSize == argv[8]
fileName(j) == argv[9 + 3 * j]
centerX(j) == argv[10 + 3 * j]
centerY(j) == argv[11 + 3 * j]

\* Where main is follows from what it has done so far: the alias file made,
\* the BTree constructed, the number of add calls made, finish() and
\* createMetaDataBlock called, the file written.

\* main is in front of its (n + 1)-th add call
MainAt(n) == bTree /\ hist.finishes = 0 /\ hist.adds = n

\* the leaf page
page == blocks[getBlock(curPageId)]

\* exit(1) in getInt
Exit1 ==
    /\ status = "running"
    /\ status' = "exit_1"
    /\ ret' = [NoRet EXCEPT !.op = "getInt"]
    /\ UNCHANGED <<blocks, curAddr, bTree, entryCount, curPageId, hist, aliasVars, mainVars>>

\* lines 388-392: the usage message and return 1
MainUsage ==
    /\ status = "running"
    /\ aliasFile = <<>>
    /\ ~usageOk
    /\ status' = "exit_1"
    /\ ret' = [NoRet EXCEPT !.op = "main"]
    /\ UNCHANGED <<blocks, curAddr, bTree, entryCount, curPageId, hist, aliasVars, mainVars>>

\* line 401
MainCreateAliasFile == usageOk /\ CreateAliasFile

\* line 403 (the allocator of line 402 is there from the start: nothing
\* before line 403 uses it)
MainBTree == aliasFile # <<>> /\ BTreeCtor

\* line 409
MainBKGD ==
    /\ MainAt(0)
    /\ Add("addBlob", addBlob(page, Str_dot, Str_BKGD, PctB(Len(aliasFile))))

\* line 410
MainICVO == MainAt(1) /\ Add("addBool", addBool(page, Str_dot, Str_ICVO, 1))

\* lines 412-419
MainFwi0 ==
    /\ MainAt(2)
    /\ IF getInt(bgHeight).ok /\ getInt(bgWidth).ok
       THEN Add("addBlob", addBlob(page, Str_dot, Str_fwi0,
                                   Fw(getInt(bgHeight).value, getInt(bgWidth).value)))
       ELSE Exit1

\* lines 421-427
MainIcvo ==
    /\ MainAt(3)
    /\ IF getInt(iconSize).ok
       THEN Add("addBlob", addBlob(page, Str_dot, Str_icvo, ivData(getInt(iconSize).value)))
       ELSE Exit1

\* line 428: addShort takes a uint16_t, the low 16 bits of the value
MainIcvt ==
    /\ MainAt(4)
    /\ IF getInt(textSize).ok
       THEN Add("addShort", addShort(page, Str_dot, Str_icvt, getInt(textSize).value[2]))
       ELSE Exit1

\* line 429
MainPict == MainAt(5) /\ Add("addBlob", addBlob(page, Str_dot, Str_pict, aliasFile))

\* lines 430-442: one run of the loop
MainIloc ==
    \E j \in 0..(fileCount - 1) :
        /\ MainAt(6 + j)
        /\ IF getInt(centerX(j)).ok /\ getInt(centerY(j)).ok
           THEN Add("addBlob",
                    addBlob(page, fileName(j), Str_Iloc,
                            ilocRecord(getInt(centerX(j)).value, getInt(centerY(j)).value)))
           ELSE Exit1

\* line 443
MainFinish == MainAt(6 + fileCount) /\ Finish

\* line 444
MainCreateMetaDataBlock == ret.op = "finish" /\ CreateMetaDataBlock(ret.id)

\* lines 445-448.  fopen's result is not tested: when the file cannot be
\* opened, fwrite and fclose are handed a null pointer.
MainWriteFile ==
    /\ status = "running"
    /\ ret.op = "createMetaDataBlock"
    /\ \E opened \in BOOLEAN :
          IF opened
          THEN /\ outFile' = writeFile(blocks, 1)
               /\ status' = "exit_0"
          ELSE /\ outFile' = outFile
               /\ status' = "crashed"
    /\ ret' = [NoRet EXCEPT !.op = "writeFile"]
    /\ UNCHANGED <<blocks, curAddr, bTree, entryCount, curPageId, hist, aliasVars, argv>>

(* --------------------------- specifications ---------------------------- *)

\* the allocator used on its own
Next ==
    \/ \E size \in AllocSizes : AllocateBlock(size)
    \/ \E blockId \in BlockIds : GetBlock(blockId)
    \/ \E id \in {U(0), U(1)} : CreateMetaDataBlock(id)

Spec == Init /\ [][Next]_vars

\* runs that only allocate, over a wide range of requested sizes: the
\* caller's blocks, and the leaf page of a BTree constructed among them
AllocNext ==
    \/ \E size \in ManyAllocSizes : AllocateBlock(size)
    \/ BTreeCtor

AllocSpec == Init /\ [][AllocNext]_vars

\* a BTree on the allocator
TreeNext ==
    \/ \E size \in TreeAllocSizes : AllocateBlock(size)
    \/ BTreeCtor
    \/ \E f \in FileNames, d \in BlobDatas :
          \* the large blob is added under "." only
          /\ (f = Str_dot \/ Len(d) < 2040)
          /\ AddBlob(f, Str_BKGD, d)
    \/ AddBool(<<46>>, Str_ICVO, 1)
    \/ AddShort(<<46>>, Str_icvt, 16)
    \/ Finish

TreeSpec == Init /\ [][TreeNext]_vars

\* createAliasFile on its own, for every pair of names
AliasInit ==
    /\ blocks = BuddyAllocator.blocks
    /\ curAddr = BuddyAllocator.curAddr
    /\ bTree = FALSE
    /\ entryCount = U(0)
    /\ curPageId = U(0)
    /\ status = "running"
    /\ ret = NoRet
    /\ hist = NoHist
    /\ volumeName \in VolumeNames
    /\ bgFileName \in BgFileNames
    /\ aliasFile = <<>>
    /\ argv = <<>>
    /\ outFile = <<>>

AliasNext == CreateAliasFile

AliasSpec == AliasInit /\ [][AliasNext]_vars

\* main, for every argument vector
MainInit ==
    /\ blocks = BuddyAllocator.blocks
    /\ curAddr = BuddyAllocator.curAddr
    /\ bTree = FALSE
    /\ entryCount = U(0)
    /\ curPageId = U(0)
    /\ status = "running"
    /\ ret = NoRet
    /\ hist = NoHist
    /\ argv \in ArgVectors
    /\ volumeName = (IF Len(argv) >= 6 THEN argv[6] ELSE <<>>)
    /\ bgFileName = (IF Len(argv) >= 3 THEN argv[3] ELSE <<>>)
    /\ aliasFile = <<>>
    /\ outFile = <<>>

MainNext ==
    \/ MainUsage
    \/ MainCreateAliasFile
    \/ MainBTree
    \/ MainBKGD
    \/ MainICVO
    \/ MainFwi0
    \/ MainIcvo
    \/ MainIcvt
    \/ MainPict
    \/ MainIloc
    \/ MainFinish
    \/ MainCreateMetaDataBlock
    \/ MainWriteFile

MainSpec == MainInit /\ [][MainNext]_vars

(* ------------------------------- claims -------------------------------- *)

\* s is a power of two
IsPow2(s) == \E i \in 0..31 : s = U32Bit(i)

\* a is a multiple of the power of two s
IsMultiple(a, s) == IsPow2(s) /\ U32And(a, U32Sub(s, U(1))) = U(0)

\* the smallest size among the blocks before block i (i > 1)
MinSizeBefore(i) ==
    CHOOSE s \in {blocks[j].size : j \in 1..(i - 1)} :
        \A j \in 1..(i - 1) : ~U32Lt(blocks[j].size, s)

\* C1, as stated: every block of the block list, the reserved ones included,
\* has an address that is a multiple of its own size.
C1_OwnSizeAligned ==
    \A i \in 1..Len(blocks) : IsMultiple(getAddr(blocks[i]), blocks[i].size)

\* C1, amended: the header block is at address 0, and every other block has
\* an address that is a multiple of the smallest size among the blocks
\* allocated before it (not, in general, of its own size).
C1_AlignedToSmallestBefore ==
    /\ getAddr(blocks[1]) = U(0)
    /\ \A i \in 2..Len(blocks) : IsMultiple(getAddr(blocks[i]), MinSizeBefore(i))

\* a 1-byte block is followed by a block that is aligned neither to its own
\* size nor to 32
C1_Witness ==
    \E i \in 3..(Len(blocks) - 1) :
        /\ blocks[i].size = U(1)
        /\ ~IsMultiple(getAddr(blocks[i + 1]), blocks[i + 1].size)
        /\ ~IsMultiple(getAddr(blocks[i + 1]), U(32))

\* the smallest power of two >= n, for 1 <= n <= 2^31
SmallestPow2AtLeast(n) ==
    CHOOSE p \in {U32Bit(i) : i \in 0..31} :
        /\ ~U32Lt(p, n)
        /\ \A i \in 0..31 : ~U32Lt(U32Bit(i), n) => ~U32Lt(U32Bit(i), p)

\* this step is an allocateBlock call of the caller
IsAllocStep == hist'.allocs = hist.allocs + 1

\* C2: allocateBlock(n), 1 <= n <= 2^31, appends one block whose size is the
\* smallest power of two >= n (n itself when n is a power of two), at the old
\* bump address, and advances the bump address by exactly that size.
C2_AllocRoundsUp ==
    [][IsAllocStep =>
         LET n == ret'.arg
             b == blocks'[Len(blocks')]
         IN  /\ Len(blocks') = Len(blocks) + 1
             /\ \A i \in 1..Len(blocks) : blocks'[i] = blocks[i]
             /\ b.size = SmallestPow2AtLeast(n)
             /\ (IsPow2(n) => b.size = n)
             /\ getAddr(b) = curAddr
             /\ curAddr' = U32Add(curAddr, b.size)]_vars

\* allocateBlock(2^31 - 1) has appended a block of 2^31 bytes after
\* allocateBlock(65537) appended one of 2^17 bytes
C2_Witness ==
    /\ ret.op = "allocateBlock"
    /\ ret.arg = <<32767, 65535>>
    /\ Len(blocks) = 4
    /\ blocks[3].size = <<2, 0>>
    /\ blocks[4].size = <<32768, 0>>
    /\ curAddr = <<32770, 2080>>

RECURSIVE SumSizes(_)
\* the sum of the sizes of blocks 1..i, halves not reduced modulo 2^16:
\* <<hi, lo>> stands for hi * 65536 + lo with lo < 65536
SumSizes(i) ==
    IF i = 0 THEN <<0, 0>>
    ELSE LET t == SumSizes(i - 1)
             lo == t[2] + blocks[i].size[2]
         IN  <<t[1] + blocks[i].size[1] + (lo \div Half), lo % Half>>

\* C3, as stated: at any point of a run (construction, allocateBlock calls,
\* createMetaDataBlock) curAddr equals the sum of the sizes of all blocks.
C3_BumpIsTotalSize ==
    status = "running" => curAddr = SumSizes(Len(blocks))

\* C4, as stated: the k-th allocateBlock call after construction returns k
\* (k from 0), and getBlock accepts only the ids such calls returned, never
\* resolving to the header block or the metadata block.
C4_IdsAreUserBlocksOnly ==
    /\ ret.op = "allocateBlock" => ret.id = U(hist.userAllocs - 1)
    /\ (ret.op = "getBlock" /\ status = "running") =>
           /\ ret.arg \in hist.ids
           /\ ret.index \notin {0, 1}

\* C4, amended: the k-th allocateBlock call after construction returns k + 1;
\* id 0 is the reserved metadata block; getBlock(id) succeeds exactly for
\* id 0 and the ids returned by those calls, with index id + 1, so it never
\* resolves to the header block; every other id fails, out of range or (for
\* 0xffffffff) on the assertion.
C4_IdsStartAtMetadataBlock ==
    /\ ret.op = "allocateBlock" =>
           /\ ret.id = U(hist.userAllocs)
           /\ getBlock(ret.id) = Len(blocks)
    /\ ret.op = "getBlock" =>
           /\ status = "running" <=> (ret.arg = U(0) \/ ret.arg \in hist.ids)
           /\ status = "running" =>
                  /\ ret.index = Val(ret.arg) + 1
                  /\ ret.index # 0
                  /\ (ret.index = 1 <=> ret.arg = U(0))
           /\ status # "running" =>
                  status = IF ret.arg = U32Max THEN "assert_failed" ELSE "out_of_range"

\* getBlock(0) has returned the metadata block after a user allocation
C4_Witness ==
    /\ ret.op = "getBlock"
    /\ status = "running"
    /\ ret.arg = U(0)
    /\ ret.index = 1
    /\ blocks[ret.index + 1].size = U(2048)
    /\ hist.userAllocs > 0

\* the big-endian 32-bit value at offset off of a record
ReadInt32(r, off) ==
    <<ByteAt(r, off) * 256 + ByteAt(r, off + 1),
      ByteAt(r, off + 2) * 256 + ByteAt(r, off + 3)>>

\* createMetaDataBlock has just returned
AfterMetaData == ret.op = "createMetaDataBlock" /\ status = "running"

\* entry i of the table of the metadata block, and what it decodes to
TableEntryAt(i) == ReadInt32(blocks[2], 8 + 4 * i)
DecodedAddr(v) == U32And(v, <<65535, 65504>>)
DecodedSize(v) == U32Bit(v[2] % 32)

\* C7, as stated: the count field and the table, decoded, are the block
\* list: every allocated block in allocation order, and zeros after them.
C7_TableIsBlockList ==
    AfterMetaData =>
        /\ ReadInt32(blocks[2], 0) = U(Len(blocks))
        /\ \A i \in 0..(TableEntries - 1) :
              IF i < Len(blocks)
              THEN /\ DecodedAddr(TableEntryAt(i)) = getAddr(blocks[i + 1])
                   /\ DecodedSize(TableEntryAt(i)) = blocks[i + 1].size
              ELSE TableEntryAt(i) = U(0)

\* C7, amended: the count field and the table, decoded, are the block list
\* without the reserved header block: the count is the number of blocks
\* minus one, entry i is the address and size of block i + 1 of the list
\* (entry 0 the metadata block), and every slot after them is zero.
C7_TableIsBlockListWithoutHeader ==
    AfterMetaData =>
        /\ ReadInt32(blocks[2], 0) = U(Len(blocks) - 1)
        /\ ReadInt32(blocks[2], 4) = U(0)
        /\ \A i \in 0..(TableEntries - 1) :
              IF i < Len(blocks) - 1
              THEN /\ DecodedAddr(TableEntryAt(i)) = getAddr(blocks[i + 2])
                   /\ DecodedSize(TableEntryAt(i)) = blocks[i + 2].size
              ELSE TableEntryAt(i) = U(0)

\* the table holds the metadata block and two user blocks of different sizes
C7_Witness ==
    /\ AfterMetaData
    /\ Len(blocks) = 4
    /\ blocks[3].size = U(32)
    /\ blocks[4].size = <<32768, 0>>
    /\ TableEntryAt(2) = <<0, 2112 + 31>>

\* offset of the free list in the metadata block: count, reserved word,
\* table, directory (4 + 1 + 4 + 4 bytes)
FreeListOffset == 8 + 4 * TableEntries + 13

RECURSIVE FreeListAt(_, _)
\* the free list decoded from offset off, bucket i on: one record
\* [count, addr] per bucket
FreeListAt(off, i) ==
    IF i = Buckets THEN <<>>
    ELSE LET count == ReadInt32(blocks[2], off)
         IN  IF count = U(0)
             THEN <<[count |-> 0, addr |-> U(0)]>> \o FreeListAt(off + 4, i + 1)
             ELSE <<[count |-> Val(count), addr |-> ReadInt32(blocks[2], off + 4)]>>
                  \o FreeListAt(off + 8, i + 1)

FreeList == FreeListAt(FreeListOffset, 0)

\* bit i of v is set
BitSet(v, i) == U32And(v, U32Bit(i)) # U(0)

\* C9, as stated: bucket i holds one entry exactly if bit i of the bump
\* pointer at the moment of the call is set; other buckets hold a zero count.
C9_BucketPerSetBit ==
    AfterMetaData =>
        \A i \in 0..(Buckets - 1) :
            FreeList[i + 1].count = (IF BitSet(hist.bump, i) THEN 1 ELSE 0)

\* what is left of the 2^32-byte address space above the bump pointer of the
\* call: 2^32 - bump, modulo 2^32
FreeSpace == U32Sub(U(0), hist.bump)

\* C9, amended: each entry advances the working bump pointer by 2^i modulo
\* 2^32, so bucket i holds one entry exactly if bit i of the working pointer
\* is set when the loop reaches bucket i, that is if bit i of 2^32 minus the
\* bump pointer at the moment of the call is set (i is the lowest set bit of
\* that bump pointer, or a higher bit that is clear in it); the entry's
\* address is the bump pointer plus the sizes of the entries of the lower
\* buckets; every other bucket is written as a single zero count.
C9_BucketPerFreeSpaceBit ==
    AfterMetaData =>
        /\ Len(FreeList) = Buckets
        /\ \A i \in 0..(Buckets - 1) :
              /\ FreeList[i + 1].count = (IF BitSet(FreeSpace, i) THEN 1 ELSE 0)
              /\ BitSet(FreeSpace, i) =>
                    FreeList[i + 1].addr =
                        U32Add(hist.bump, U32And(FreeSpace, U32Sub(U32Bit(i), U(1))))
        /\ blocks[2].curOffset =
              FreeListOffset + 4 * Buckets
              + 4 * Cardinality({i \in 0..(Buckets - 1) : BitSet(FreeSpace, i)})

\* the bump pointer was 2^31 + 2080 + 32 (bits 6, 11 and 31): bucket 7, whose
\* bit is clear, holds an entry, and buckets 11 and 31, whose bits are set,
\* hold none
C9_Witness ==
    /\ AfterMetaData
    /\ hist.bump = <<32768, 2112>>
    /\ FreeList[7].count = 1
    /\ FreeList[8].count = 1
    /\ FreeList[12].count = 0
    /\ FreeList[32].count = 0

\* the leaf page the BTree constructor allocated, and the master block
\* finish() allocated
LeafPage == blocks[getBlock(hist.leaf)]
MasterBlock == blocks[getBlock(hist.master)]

\* this step is an addBlob / addBool / addShort call
IsAddStep == hist'.adds = hist.adds + 1

\* C5, as stated: once finish() has returned, every later add call fails and
\* no later call changes the leaf page bytes, the master block bytes or the
\* entry count.
C5_NothingMutatedAfterFinish ==
    [][hist.finishes > 0 =>
         /\ IsAddStep => status' # "running"
         /\ entryCount' = entryCount
         /\ LeafPage' = LeafPage
         /\ MasterBlock' = MasterBlock]_vars

\* finish() has just returned and every add call before it fitted in the page
AfterFinish == ret.op = "finish" /\ status = "running" /\ ~Overrun(LeafPage)

\* C6: the entry-count field at bytes 4..7 of the leaf page is zero until
\* finish(); after add calls that fit in the page and one finish() it holds
\* the number of add calls made, and so does the record-count field (bytes
\* 8..11) of the master block.
C6_EntryCountField ==
    /\ (bTree /\ hist.finishes = 0 /\ ~Overrun(LeafPage)) =>
           ReadInt32(LeafPage, 4) = U(0)
    /\ AfterFinish =>
           /\ ReadInt32(LeafPage, 4) = U(hist.adds)
           /\ ReadInt32(MasterBlock, 8) = U(hist.adds)

\* finish() has returned after MaxAdds add calls that fitted in the page
C6_Witness ==
    /\ AfterFinish
    /\ hist.adds = MaxAdds
    /\ ReadInt32(LeafPage, 4) = U(MaxAdds)
    /\ LeafPage.curOffset = 8

\* C8, as stated: no write through a block's cursor lands outside the
\* block's capacity; an operation that would exceed it is a fatal error and
\* is not performed.
C8_WritesStayInsideBlock ==
    \A i \in 1..Len(blocks) :
        /\ ~Overrun(blocks[i])
        /\ ~U32Lt(blocks[i].size, U(blocks[i].curOffset))

\* the big-endian 16-bit value at offset off (0-based) of a byte vector
ReadInt16(bytes, off) == bytes[off + 1] * 256 + bytes[off + 2]

\* the trailer of the alias file, decoded: the tag, the length field, and
\* the bytes the length field counts
TrailerTag == ReadInt16(aliasFile, SizeOfAliasFile)
TrailerLength == ReadInt16(aliasFile, SizeOfAliasFile + 2)
TrailerPath == SubSeq(aliasFile, SizeOfAliasFile + 5, SizeOfAliasFile + 4 + TrailerLength)

\* C10, as stated: for names within 27 and 63 bytes the trailer decodes (tag
\* 2, length field, that many bytes) to exactly volume + ":" + file; the
\* length field is len(volume) + 1 + len(file) and does not count the filler.
C10_TrailerRoundTrip ==
    aliasFile # <<>> =>
        /\ TrailerTag = 2
        /\ TrailerLength = Len(volumeName) + 1 + Len(bgFileName)
        /\ TrailerPath = volumeName \o <<58>> \o bgFileName


\* a <= b
U32Le(a, b) == ~U32Lt(b, a)

\* C13, as stated: for every allocation sequence each block's address is the
\* sum of the sizes of the blocks allocated before it, so that addresses
\* ascend in allocation order, no two blocks overlap, and writeFile puts
\* byte j of a block with address a at file offset 4 + a + j.
C13_SequentialNonOverlapping ==
    \A i \in 1..Len(blocks) :
        /\ getAddr(blocks[i]) = SumSizes(i - 1)
        /\ \A j \in 1..(i - 1) :
              /\ U32Le(getAddr(blocks[j]), getAddr(blocks[i]))
              /\ blocks[j].size # U(0) => getAddr(blocks[j]) # getAddr(blocks[i])
        /\ writeFileOffset(blocks, i) =
              <<getAddr(blocks[i])[1] + ((getAddr(blocks[i])[2] + 4) \div Half),
                (getAddr(blocks[i])[2] + 4) % Half>>

\* C14: createMetaDataBlock never dies on assert(curAddr == 0): when it
\* returns, the bump pointer its free-list loop worked on is zero, and when
\* it dies on an assertion, it is the one on the alignment of a table entry.
C14_FreeListEndsAtZero ==
    ret.op = "createMetaDataBlock" =>
        /\ status \in {"running", "assert_failed"}
        /\ status = "running" => curAddr = U(0)
        /\ status = "assert_failed" => ~tableAsserts(blocks)

\* createMetaDataBlock has returned on a bump pointer of 2^31 + 2048 + 32,
\* a total size that is nonzero and below 2^32
C14_Witness ==
    /\ AfterMetaData
    /\ hist.bump = <<32768, 2080>>
    /\ SumSizes(Len(blocks)) = <<32768, 2080>>
    /\ curAddr = U(0)

\* C15: finish() returns the id of a block that call allocated (the last
\* block of the list, a block other than the leaf page); its first five
\* fields are the id of the leaf page the add calls wrote into, 0, the
\* entry count, 1 and 4096.
C15_MasterBlockFields ==
    ret.op = "finish" =>
        /\ ret.id = hist.master
        /\ getBlock(ret.id) = Len(blocks)
        /\ ret.id # hist.leaf
        /\ curPageId = ret.id
        /\ ReadInt32(MasterBlock, 0) = hist.leaf
        /\ ReadInt32(MasterBlock, 4) = U(0)
        /\ ReadInt32(MasterBlock, 8) = entryCount
        /\ ReadInt32(MasterBlock, 12) = U(1)
        /\ ReadInt32(MasterBlock, 16) = U(4096)
        /\ MasterBlock.curOffset = 20
        /\ hist.adds > 0 => Len(LeafPage.data) > 8

\* finish() has returned after one add call, with a block of the caller
\* allocated before the leaf page, so that the leaf page has id 2 and the
\* master block id 3
C15_Witness ==
    /\ ret.op = "finish"
    /\ status = "running"
    /\ hist.leaf = U(2)
    /\ ret.id = U(3)
    /\ entryCount = U(1)
    /\ ReadInt32(MasterBlock, 0) = U(2)
    /\ ReadInt32(MasterBlock, 8) = U(1)

\* this step is a finish() call
IsFinishStep == hist'.finishes = hist.finishes + 1

\* C16: the patch sequence of finish(), seek(4) then writeInt32, changes
\* bytes 4..7 of the leaf page and nothing else of it: not its size, not
\* its length, not bytes 0..3, not any byte of the entries appended so
\* far; the cursor is left behind the patched field.
C16_PatchChangesOnlyCountField ==
    [][(IsFinishStep /\ ~Overrun(LeafPage)) =>
         /\ LeafPage'.size = LeafPage.size
         /\ LeafPage'.addr = LeafPage.addr
         /\ Len(LeafPage'.data) = Len(LeafPage.data)
         /\ \A i \in 0..(Len(LeafPage.data) - 1) :
               i \notin 4..7 => ByteAt(LeafPage', i) = ByteAt(LeafPage, i)
         /\ ReadInt32(LeafPage', 4) = entryCount
         /\ LeafPage'.curOffset = 8]_vars

\* finish() has returned after an addBool and an addShort: the 15 and 18
\* bytes of their entries are still behind the 8 bytes of the page header
C16_Witness ==
    /\ AfterFinish
    /\ hist.adds = 2
    /\ Len(LeafPage.data) = 8 + 15 + 18
    /\ ReadInt32(LeafPage, 0) = U(0)
    /\ ReadInt32(LeafPage, 8) = U(1)
    /\ SubSeq(LeafPage.data, 15, 22) = Str_ICVO \o Str_bool

\* the furthest the cursor of the metadata block can get in one call:
\* count, reserved word, table, directory, and 32 buckets with an entry each
MetaDataMaxCursor == 8 + 4 * TableEntries + 13 + 8 * Buckets

\* C19: one createMetaDataBlock call writes neither past the 2048 bytes of
\* the metadata block nor past the 32 bytes of the header block: it does
\* not die of such a write, the cursor of the metadata block ends at most
\* at 8 + 256*4 + 13 + 32*8 = 1301, and the cursor of the header at 16.
C19_MetaDataWritesFit ==
    ret.op = "createMetaDataBlock" =>
        /\ status # "crashed"
        /\ ~Overrun(blocks[1])
        /\ ~Overrun(blocks[2])
        /\ status = "running" =>
              /\ blocks[2].curOffset <= MetaDataMaxCursor
              /\ blocks[2].curOffset >= FreeListOffset + 4 * Buckets
              /\ Len(blocks[2].data) = blocks[2].curOffset
              /\ MetaDataMaxCursor <= Val(blocks[2].size)
              /\ blocks[1].curOffset = 16
              /\ Len(blocks[1].data) = 16

\* createMetaDataBlock has returned on a bump pointer of 2080, the fewest
\* blocks there can be: 26 buckets hold an entry (bits 5..10 and
\* 12..31 of 2^32 - 2080)
C19_Witness ==
    /\ AfterMetaData
    /\ Len(blocks) = 2
    /\ blocks[2].curOffset = FreeListOffset + 4 * Buckets + 4 * 26
    /\ ReadInt32(blocks[1], 4) = U(32)
    /\ ReadInt32(blocks[1], 8) = U(2048)


\* the bytes off .. off + n - 1 of a record
BytesAt(r, off, n) == [i \in 1..n |-> ByteAt(r, off + i - 1)]

\* the entry at offset off of a page, decoded: name (UTF-16BE code units),
\* record type, data type, payload bytes, and the offset behind the entry
DecodeEntry(p, off) ==
    LET nameLen == Val(ReadInt32(p, off))
        o1 == off + 4 + 2 * nameLen
        kind == BytesAt(p, o1 + 4, 4)
        o2 == o1 + 8
        len == IF kind = Str_blob THEN Val(ReadInt32(p, o2))
               ELSE IF kind = Str_bool THEN 1
               ELSE 4
        o3 == IF kind = Str_blob THEN o2 + 4 ELSE o2
    IN  [name |-> [i \in 1..nameLen |->
                      ByteAt(p, off + 2 + 2 * i) * 256 + ByteAt(p, off + 3 + 2 * i)],
         type |-> BytesAt(p, o1, 4),
         kind |-> kind,
         payload |-> BytesAt(p, o3, len),
         end |-> o3 + len]

RECURSIVE DecodeEntries(_, _, _)
\* the n entries from offset off on
DecodeEntries(p, off, n) ==
    IF n = 0 THEN <<>>
    ELSE LET e == DecodeEntry(p, off)
         IN  <<e>> \o DecodeEntries(p, e.end, n - 1)

\* s is a decimal numeral, and the number it denotes
IsDecimal(s) == Len(s) > 0 /\ \A i \in 1..Len(s) : IsDigit(s[i])
NatOf(s) == DigitsValue(s, 1, Len(s) + 1)

\* the numeric arguments of the command line: their positions in argv
NumericArgPositions ==
    (NumericPositions \cup {9 + 3 * j + d : j \in 0..(fileCount - 1), d \in {1, 2}})
    \cap (1..argc)

\* the arguments are valid: their count is, and every numeric argument is a
\* decimal numeral small enough for the 16-bit fields of the records
ValidRun ==
    /\ usageOk
    /\ \A i \in NumericArgPositions : IsDecimal(argv[i]) /\ NatOf(argv[i]) < 65536 - 300

\* C11, as stated: in a run with valid arguments and k file triples no add
\* call fails, and once finish() has returned the 2048 bytes of the leaf
\* page hold exactly 6 + k entries, in this order: BKGD (blob), ICVO (bool,
\* 1), fwi0 (blob; 200, 300, 200 + bg_height, 300 + bg_width), icvo (blob
\* with icon_size), icvt (short, text_size), pict (blob, the alias record),
\* and one Iloc blob per file, under its name, with its centerX and centerY;
\* the master block reports 6 + k entries, depth 0 and 1 node.
C11_LeafPageEntries ==
    ValidRun =>
        /\ status = "crashed" => ret.op = "writeFile"
        /\ hist.finishes = 1 =>
              LET es == DecodeEntries(LeafPage, 8, 6 + fileCount)
              IN  /\ ReadInt32(LeafPage, 4) = U(6 + fileCount)
                  /\ es[6 + fileCount].end <= Val(LeafPage.size)
                  /\ es[6 + fileCount].end = Len(LeafPage.data)
                  /\ \A i \in 1..6 : es[i].name = Str_dot
                  /\ [i \in 1..6 |-> es[i].type] =
                        <<Str_BKGD, Str_ICVO, Str_fwi0, Str_icvo, Str_icvt, Str_pict>>
                  /\ [i \in 1..6 |-> es[i].kind] =
                        <<Str_blob, Str_bool, Str_blob, Str_blob, Str_shor, Str_blob>>
                  /\ es[2].payload = <<1>>
                  /\ ReadInt16(es[3].payload, 0) = 200
                  /\ ReadInt16(es[3].payload, 2) = 300
                  /\ ReadInt16(es[3].payload, 4) = 200 + NatOf(bgHeight)
                  /\ ReadInt16(es[3].payload, 6) = 300 + NatOf(bgWidth)
                  /\ ReadInt16(es[4].payload, 4) = NatOf(iconSize)
                  /\ es[5].payload = htonl(NatOf(textSize))
                  /\ es[6].payload = aliasFile
                  /\ \A j \in 0..(fileCount - 1) :
                        /\ es[7 + j].name = fileName(j)
                        /\ es[7 + j].type = Str_Iloc
                        /\ es[7 + j].kind = Str_blob
                        /\ SubSeq(es[7 + j].payload, 1, 4) = htonl(NatOf(centerX(j)))
                        /\ SubSeq(es[7 + j].payload, 5, 8) = htonl(NatOf(centerY(j)))
                  /\ ReadInt32(MasterBlock, 4) = U(0)
                  /\ ReadInt32(MasterBlock, 8) = U(6 + fileCount)
                  /\ ReadInt32(MasterBlock, 12) = U(1)

\* s is an integer in decimal notation: white space, an optional sign, and
\* one digit or more up to the end of the string
IsInteger(s) ==
    \E w \in 0..Len(s), g \in {0, 1} :
        /\ w + g < Len(s)
        /\ \A i \in 1..w : IsSpace(s[i])
        /\ g = 1 => s[w + 1] \in {43, 45}
        /\ \A i \in (w + g + 1)..Len(s) : IsDigit(s[i])

\* the run has a usage error: a wrong argument count, or a numeric argument
\* that is not an integer
UsageError == ~usageOk \/ \E i \in NumericArgPositions : ~IsInteger(argv[i])

\* C12, as stated: a run with a usage error never ends with exit code 0 and
\* never opens or writes the output file; a run that ends with exit code 1
\* has not written it; exit code 0 only follows the acceptance of every
\* numeric argument.
C12_UsageErrorsExitOne ==
    /\ UsageError => (status # "exit_0" /\ outFile = <<>>)
    /\ status = "exit_1" => outFile = <<>>
    /\ status = "exit_0" =>
           /\ usageOk
           /\ \A i \in NumericArgPositions : getInt(argv[i]).ok

RECURSIVE LexLe(_, _)
\* a <= b in lexicographic order
LexLe(a, b) ==
    IF a = <<>> THEN TRUE
    ELSE IF b = <<>> THEN FALSE
    ELSE IF Head(a) # Head(b) THEN Head(a) < Head(b)
    ELSE LexLe(Tail(a), Tail(b))

\* C17, as stated: in a run with valid arguments the entries of the leaf
\* page are in non-decreasing lexicographic order of their file names,
\* whatever the file triples of the command line and their order.
C17_EntriesInFilenameOrder ==
    (ValidRun /\ bTree /\ ~Overrun(LeafPage)) =>
        LET es == DecodeEntries(LeafPage, 8, Val(entryCount))
        IN  \A i \in 1..(Len(es) - 1) : LexLe(es[i].name, es[i + 1].name)

\* the block id the DSDB entry of the directory maps to
DirectoryTarget == ReadInt32(blocks[2], 8 + 4 * TableEntries + 9)

\* table entry i of the metadata block encodes the address and the size of
\* the block getBlock(i) returns
TableEntryIsBlock(i) ==
    /\ DecodedAddr(TableEntryAt(Val(i))) = getAddr(blocks[getBlock(i)])
    /\ DecodedSize(TableEntryAt(Val(i))) = blocks[getBlock(i)].size

\* main has called createMetaDataBlock and it returned, after add calls that
\* fitted in the leaf page
AfterDriverSequence ==
    /\ ret.op \in {"createMetaDataBlock", "writeFile"}
    /\ hist.metas = 1
    /\ status \in {"running", "exit_0"}
    /\ ~Overrun(LeafPage)

\* C18: after the driver sequence (adds, finish, createMetaDataBlock) table
\* entry i encodes the address and size of getBlock(i) for every id i that
\* getBlock accepts; the DSDB target is the id of the master block, the root
\* field of the master block the id of the leaf page, and both are accepted
\* ids; the count field is the number of populated table entries; the
\* address and size in the header are those decoded from table entry 0.
C18_BlockReferencesConsistent ==
    AfterDriverSequence =>
        /\ \A i \in 0..(TableEntries - 1) :
              getBlockOutcome(blocks, U(i)) = "ok" => TableEntryIsBlock(U(i))
        /\ getBlockOutcome(blocks, DirectoryTarget) = "ok"
        /\ DirectoryTarget = hist.master
        /\ blocks[getBlock(DirectoryTarget)] = MasterBlock
        /\ ReadInt32(MasterBlock, 16) = U(4096)
        /\ getBlockOutcome(blocks, ReadInt32(MasterBlock, 0)) = "ok"
        /\ ReadInt32(MasterBlock, 0) = hist.leaf
        /\ ReadInt32(blocks[getBlock(ReadInt32(MasterBlock, 0))], 4) = entryCount
        /\ Val(ReadInt32(blocks[2], 0)) =
              Cardinality({i \in 0..(TableEntries - 1) : TableEntryAt(i) # U(0)})
        /\ \A i \in 0..(TableEntries - 1) :
              TableEntryAt(i) # U(0) <=> getBlockOutcome(blocks, U(i)) = "ok"
        /\ BytesAt(blocks[1], 0, 4) = Str_Bud1
        /\ ReadInt32(blocks[1], 4) = DecodedAddr(TableEntryAt(0))
        /\ ReadInt32(blocks[1], 8) = DecodedSize(TableEntryAt(0))
        /\ ReadInt32(blocks[1], 12) = DecodedAddr(TableEntryAt(0))

\* the run of the end-to-end example has called createMetaDataBlock: the
\* DSDB target is 2, the master block, whose root field is 1, the leaf page
\* with its 7 entries
C18_Witness ==
    /\ AfterDriverSequence
    /\ argv = BaseArgs \o Triple(Str_icon_png)
    /\ ret.op = "createMetaDataBlock"
    /\ Len(blocks) = 4
    /\ DirectoryTarget = U(2)
    /\ ReadInt32(MasterBlock, 0) = U(1)
    /\ TableEntryAt(1) = U(2080 + 11)
    /\ TableEntryAt(2) = U(4128 + 5)
    /\ ReadInt32(LeafPage, 4) = U(7)

=============================================================================
